---- MODULE Spec2Model ----
(***************************************************************************)
(* The sequential demo runner of claudeCodeDemo.py and simpleClaudeDemo.py *)
(* as a state machine: main() runs run_all_demos() under asyncio.run; the  *)
(* coroutine sets up the SDK and the API key, builds the list of demos and *)
(* awaits them one after another, counting the ones that return True.      *)
(* The completion service, the Python import system, pip and the SIGINT    *)
(* signal are the environment: their outcomes are nondeterministic.        *)
(***************************************************************************)
EXTENDS Integers, Sequences, FiniteSets, TLC

VARIABLES
  script,      \* which of the two scripts runs
  apiKey,      \* environment: ANTHROPIC_API_KEY is set (in .env or the process)
  sdkLoaded,   \* "anthropic" is in sys.modules (an import of it succeeded)
  pc,          \* position of the main task
  demos,       \* run_all_demos' local list; <<>> until it is built
  idx,         \* position of the for loop in demos
  successful,  \* run_all_demos' local counter
  turn,        \* which messages.create call of the running demo comes next
  unit,        \* history: how each demo of the script has fared so far
  calls,       \* history: per demo, the outcome of each messages.create call
  invoked,     \* history: the demo functions called, in call order
  out,         \* history: what was printed, in order
  sigint,      \* "none", "pending" (main task cancel requested), "taken"
  sigLog       \* history: one record per SIGINT delivered

vars == <<script, apiKey, sdkLoaded, pc, demos, idx, successful, turn, unit,
          calls, invoked, out, sigint, sigLog>>

\* How many SIGINT signals the environment sends during one run.
MaxInterrupts == 1

Scripts == {"claudeCodeDemo", "simpleClaudeDemo"}

\* ------------------------------------------------------------ the demos

\* The (name, demo_func) pairs of run_all_demos.
DemoList(s) ==
  LET first4 == << [name |-> "Hello World",     func |-> "demo_hello_world"],
                   [name |-> "Code Generation", func |-> "demo_code_generation"],
                   [name |-> "Code Review",     func |-> "demo_code_review"],
                   [name |-> "Debugging Help",  func |-> "demo_debugging_help"] >>
  IN IF s = "claudeCodeDemo"
     THEN first4 \o << [name |-> "Multi-turn",     func |-> "demo_multi_turn"],
                       [name |-> "Error Handling", func |-> "demo_error_handling"] >>
     ELSE first4

\* The number of awaited client.messages.create calls a demo is written to make.
Turns(f) == IF f = "demo_multi_turn" THEN 2 ELSE 1

\* Whether a demo's "import anthropic" stands inside its try block.
ImportInsideTry(s) == s = "simpleClaudeDemo"

\* ------------------------------------------------------------ printing

Msg(k, l) == [kind |-> k, label |-> l, n |-> 0, d |-> 0]

\* print(f"\n=== Demo i: ... ===") : the header carries the demo's name.
HeaderMsg(d) == Msg("header", d.name)

\* What a demo prints for a response it received.
ResponseMsg(f, t) ==
  IF f = "demo_multi_turn" /\ t = 2
  THEN << Msg("response", ""), Msg("turns_completed", "") >>
  ELSE << Msg("response", "") >>

\* Variant: an except block that swallows the error without printing.
demo_except_silent(f) == << >>

\* What a demo's own except block prints: the error text, no demo name.
demo_except_print(f) ==
  IF f = "demo_error_handling"
  THEN << Msg("op_error_handled", "") >>
  ELSE << Msg("op_error", "") >>

\* print(f"<cross> {name} demo failed: {e}") in run_all_demos' except block.
runner_except_print(d) == << Msg("runner_error", d.name) >>

\* print("\n" + "=" * 50); print(f"Completed {successful}/{len(demos)} ...")
SummaryMsg(x, y) ==
  << Msg("rule", ""), [kind |-> "summary", label |-> "", n |-> x, d |-> y] >>

\* ------------------------------------------------------------ exceptions

\* The exceptions an "except Exception" clause matches.  CancelledError and
\* KeyboardInterrupt derive from BaseException only.
IsException(e) == e \in {"ImportError", "ServiceError", "CalledProcessError"}

\* Variant: a bare "except:", which catches BaseException too.
OpCatchesAll(e) == TRUE

\* "except Exception as e" inside each demo.
OpCatches(e) == IsException(e)

\* Variant: an except block without its return, falling through to "return True".
ExceptFallsThrough == TRUE

\* "return False" at the end of each demo's except block.
ExceptReturns == FALSE

\* Variant: "await demo_func()" without the try/except around it.
RunnerCatchesNothing(e) == FALSE

\* "except Exception as e" around "await demo_func()" in run_all_demos.
RunnerCatches(e) == IsException(e)

\* main(): except KeyboardInterrupt / except Exception.  asyncio.run turns the
\* cancellation of the main task by SIGINT into KeyboardInterrupt.
main_except_print(e) ==
  IF e \in {"KeyboardInterrupt", "CancelledError"}
  THEN << Msg("interrupted", "") >>
  ELSE IF IsException(e) THEN << Msg("demo_failed", "") >> ELSE << >>

\* ------------------------------------------------------------ setup

\* Variant: setup_api_key() reporting success whether or not a key was found.
setup_api_key_always ==
  [ok |-> TRUE, printed |-> << Msg("key_ok", "") >>]

\* setup_api_key(): the value returned and what is printed.
setup_api_key ==
  IF apiKey
  THEN [ok |-> TRUE,  printed |-> << Msg("key_ok", "") >>]
  ELSE [ok |-> FALSE, printed |-> << Msg("key_missing", ""), Msg("key_hint", "") >>]

\* Variant: the counter starting one too high.
InitialSuccessfulOne == 0 + 1

\* successful = 0
InitialSuccessful == 0

\* Variant: "successful += 1" without the "if result:".
TallyAlways(s, result) == s + 1

\* if result: successful += 1
Tally(s, result) == IF result THEN s + 1 ELSE s

\* Variant: a loop that stops one pair short of the end of the list.
HasNextSkipsLast == idx < Len(demos)

\* for name, demo_func in demos: the loop has a next pair.
HasNext == idx <= Len(demos)

\* Variant: a loop that goes on while the demo it started is still awaited.
AtLoopHeadOrAwaiting == pc \in {"loop", "await"}

\* The main task is at the head of the for loop: the demo it awaited is done.
AtLoopHead == pc = "loop"

\* ------------------------------------------------------------ state

Init ==
  /\ script \in Scripts
  /\ apiKey \in BOOLEAN
  /\ sdkLoaded = FALSE
  /\ pc = "start"
  /\ demos = << >>
  /\ idx = 1
  /\ successful = InitialSuccessful
  /\ turn = 1
  /\ unit = [i \in 1..Len(DemoList(script)) |-> "Pending"]
  /\ calls = [i \in 1..Len(DemoList(script)) |-> << >>]
  /\ invoked = << >>
  /\ out = << >>
  /\ sigint = "none"
  /\ sigLog = << >>


\* The state the design's per-unit state machine gives a demo: it succeeded
\* when demo_func() returned True, failed when it returned False or raised
\* into run_all_demos' except clause.  A demo left by an interrupt never settles.
Status(i) ==
  CASE unit[i] = "Pending"       -> "Pending"
    [] unit[i] = "Running"       -> "Running"
    [] unit[i] = "ReturnedTrue"  -> "Succeeded"
    [] unit[i] = "ReturnedFalse" -> "Failed"
    [] unit[i] = "Raised"        -> "Failed"
    [] OTHER                     -> "Interrupted"

\* How a demo that an exception leaves has ended.
LeftBy(e) == IF IsException(e) THEN "Raised" ELSE "Interrupted"

\* The messages.create calls that were sent and have not come back.
InFlight ==
  {c \in (DOMAIN calls) \X (1..2) :
     c[2] <= Len(calls[c[1]]) /\ calls[c[1]][c[2]] = "inflight"}

\* The running demo's awaited call ends with outcome o.
EndCall(o) ==
  [calls EXCEPT ![idx] = [@ EXCEPT ![Len(@)] = o]]

\* ------------------------------------------------------------ control flow

\* An exception leaves run_all_demos and reaches main()'s handlers.
Propagate(e, printed) ==
  /\ out' = out \o printed \o main_except_print(e)
  /\ pc' = "exit"
  /\ UNCHANGED <<demos, idx, successful, turn, invoked>>

\* The same, raised by run_all_demos' own code, outside any demo.
ToMain(e, printed) == Propagate(e, printed) /\ UNCHANGED unit

\* "result = await demo_func()" yields a value; "if result: successful += 1";
\* the loop goes on to the next pair.
OpReturns(result, printed) ==
  /\ out' = out \o printed
  /\ successful' = Tally(successful, result)
  /\ unit' = [unit EXCEPT ![idx] = IF result THEN "ReturnedTrue" ELSE "ReturnedFalse"]
  /\ idx' = idx + 1
  /\ pc' = "loop"
  /\ UNCHANGED <<demos, turn, invoked>>

\* Exception e is raised in the running demo, inside its try block or outside:
\* the demo's except clause, then run_all_demos', then main()'s.
OpRaises(e, insideTry, printed) ==
  IF insideTry /\ OpCatches(e)
  THEN OpReturns(ExceptReturns, printed \o demo_except_print(demos[idx].func))
  ELSE /\ unit' = [unit EXCEPT ![idx] = LeftBy(e)]
       /\ IF RunnerCatches(e)
          THEN /\ out' = out \o printed \o runner_except_print(demos[idx])
               /\ idx' = idx + 1
               /\ pc' = "loop"
               /\ UNCHANGED <<demos, successful, turn, invoked>>
          ELSE Propagate(e, printed)

\* Where run_all_demos goes after the SDK check, and after the key check.
AfterInstall(s) == IF s = "claudeCodeDemo" THEN "setup_key" ELSE "build"
AfterKey(s) == IF s = "claudeCodeDemo" THEN "cli" ELSE "install"

\* ------------------------------------------------------------ actions

\* print("... Demo Starting..."); print("=" * 50)
PrintBanner ==
  /\ pc = "start"
  /\ out' = out \o << Msg("banner", "") >>
  /\ pc' = IF script = "claudeCodeDemo" THEN "install" ELSE "setup_key"
  /\ UNCHANGED <<script, apiKey, sdkLoaded, demos, idx, successful, turn, unit,
                 calls, invoked, sigint, sigLog>>

\* install_requirements() / the inline SDK check of simpleClaudeDemo: import
\* anthropic, and on ImportError pip install it (check_call raises on failure).
InstallRequirements ==
  /\ pc = "install"
  /\ \/ /\ sdkLoaded' = TRUE
        /\ out' = out \o << Msg("sdk_ok", "") >>
        /\ pc' = AfterInstall(script)
        /\ UNCHANGED <<demos, idx, successful, turn, unit, invoked>>
     \/ /\ sdkLoaded' = sdkLoaded
        /\ out' = out \o << Msg("sdk_installing", ""), Msg("sdk_installed", "") >>
        /\ pc' = AfterInstall(script)
        /\ UNCHANGED <<demos, idx, successful, turn, unit, invoked>>
     \/ /\ sdkLoaded' = sdkLoaded
        /\ ToMain("CalledProcessError", << Msg("sdk_installing", "") >>)
  /\ UNCHANGED <<script, apiKey, calls, sigint, sigLog>>

\* if not setup_api_key(): return
SetupApiKey ==
  /\ pc = "setup_key"
  /\ out' = out \o setup_api_key.printed
  /\ pc' = IF setup_api_key.ok THEN AfterKey(script) ELSE "return"
  /\ UNCHANGED <<script, apiKey, sdkLoaded, demos, idx, successful, turn, unit,
                 calls, invoked, sigint, sigLog>>

\* check_claude_cli(): prints whether the CLI was found; its result is unused.
CheckCli ==
  /\ pc = "cli"
  /\ out' = out \o << Msg("cli_info", "") >>
  /\ pc' = "build"
  /\ UNCHANGED <<script, apiKey, sdkLoaded, demos, idx, successful, turn, unit,
                 calls, invoked, sigint, sigLog>>

\* demos = [...]; successful = 0; the for loop starts.
BuildDemos ==
  /\ pc = "build"
  /\ demos' = DemoList(script)
  /\ successful' = InitialSuccessful
  /\ idx' = 1
  /\ pc' = "loop"
  /\ UNCHANGED <<script, apiKey, sdkLoaded, turn, unit, calls, invoked, out,
                 sigint, sigLog>>

\* for name, demo_func in demos: ... demo_func() is called and prints its header.
StartUnit ==
  /\ AtLoopHead
  /\ HasNext
  /\ invoked' = Append(invoked, demos[idx].func)
  /\ unit' = [unit EXCEPT ![idx] = "Running"]
  /\ out' = Append(out, HeaderMsg(demos[idx]))
  /\ turn' = 1
  /\ pc' = "import"
  /\ UNCHANGED <<script, apiKey, sdkLoaded, demos, idx, successful, calls,
                 sigint, sigLog>>

\* The demo's "import anthropic": bound from sys.modules once loaded, else it
\* may raise ImportError.
ImportSDK ==
  /\ pc = "import"
  /\ \/ /\ sdkLoaded' = TRUE
        /\ pc' = "call"
        /\ UNCHANGED <<demos, idx, successful, turn, unit, invoked, out>>
     \/ /\ ~sdkLoaded
        /\ sdkLoaded' = sdkLoaded
        /\ OpRaises("ImportError", ImportInsideTry(script), << >>)
  /\ UNCHANGED <<script, apiKey, calls, sigint, sigLog>>

\* client = anthropic.AsyncAnthropic(); await client.messages.create(...):
\* the request is sent and the main task suspends.
IssueCall ==
  /\ pc = "call"
  /\ calls' = [calls EXCEPT ![idx] = Append(@, "inflight")]
  /\ pc' = "await"
  /\ UNCHANGED <<script, apiKey, sdkLoaded, demos, idx, successful, turn, unit,
                 invoked, out, sigint, sigLog>>

\* The awaited call returns a response: the demo prints it, then sends its next
\* turn or returns True.
CallSucceeds ==
  /\ pc = "await"
  /\ sigint # "pending"
  /\ calls' = EndCall("ok")
  /\ IF turn < Turns(demos[idx].func)
     THEN /\ out' = out \o ResponseMsg(demos[idx].func, turn)
          /\ turn' = turn + 1
          /\ pc' = "call"
          /\ UNCHANGED <<demos, idx, successful, unit, invoked>>
     ELSE OpReturns(TRUE, ResponseMsg(demos[idx].func, turn))
  /\ UNCHANGED <<script, apiKey, sdkLoaded, sigint, sigLog>>

\* The awaited call fails: the exception is raised inside the demo's try block.
CallFails ==
  /\ pc = "await"
  /\ sigint # "pending"
  /\ calls' = EndCall("error")
  /\ OpRaises("ServiceError", TRUE, << >>)
  /\ UNCHANGED <<script, apiKey, sdkLoaded, sigint, sigLog>>

\* After the loop: the rule and the "Completed X/Y" line.
PrintSummary ==
  /\ AtLoopHead
  /\ ~HasNext
  /\ out' = out \o SummaryMsg(successful, Len(demos))
  /\ pc' = "return"
  /\ UNCHANGED <<script, apiKey, sdkLoaded, demos, idx, successful, turn, unit,
                 calls, invoked, sigint, sigLog>>

\* run_all_demos returns and asyncio.run with it.  A main task that finishes
\* with a cancellation still requested ends cancelled: main() sees
\* KeyboardInterrupt.
AsyncioRunReturns ==
  /\ pc = "return"
  /\ pc' = "exit"
  /\ out' = out \o (IF sigint = "pending" THEN main_except_print("CancelledError")
                                           ELSE << >>)
  /\ sigint' = IF sigint = "pending" THEN "taken" ELSE sigint
  /\ UNCHANGED <<script, apiKey, sdkLoaded, demos, idx, successful, turn, unit,
                 calls, invoked, sigLog>>

\* ------------------------------------------------------------ SIGINT

SigRecord == [at |-> pc, started |-> Len(invoked)]

\* SIGINT while the main task is suspended in its await: the await raises
\* CancelledError inside the demo's try block.
SigintWhileSuspended ==
  /\ pc = "await"
  /\ sigint = "none"
  /\ Len(sigLog) < MaxInterrupts
  /\ sigLog' = Append(sigLog, SigRecord)
  /\ sigint' = "taken"
  /\ calls' = EndCall("cancelled")
  /\ OpRaises("CancelledError", TRUE, << >>)
  /\ UNCHANGED <<script, apiKey, sdkLoaded>>

\* SIGINT while the main task runs synchronous code, handled by raising
\* KeyboardInterrupt where the code stands (the default handler; also a
\* repeated SIGINT under asyncio's own handler).
SigintRaises ==
  /\ pc \notin {"exit", "await"} \/ (pc = "await" /\ sigint = "pending")
  /\ Len(sigLog) < MaxInterrupts
  /\ sigLog' = Append(sigLog, SigRecord)
  /\ sigint' = "taken"
  /\ calls' = IF pc = "await" THEN EndCall("cancelled") ELSE calls
  /\ IF pc \in {"import", "call", "await"}
     THEN OpRaises("KeyboardInterrupt", pc # "import" \/ ImportInsideTry(script), << >>)
     ELSE ToMain("KeyboardInterrupt", << >>)
  /\ UNCHANGED <<script, apiKey, sdkLoaded>>

\* SIGINT while the main task runs synchronous code, handled by asyncio's
\* runner: the main task's cancellation is requested and takes effect when the
\* task next suspends or finishes.
SigintCancels ==
  /\ pc \notin {"exit", "await"}
  /\ sigint = "none"
  /\ Len(sigLog) < MaxInterrupts
  /\ sigLog' = Append(sigLog, SigRecord)
  /\ sigint' = "pending"
  /\ UNCHANGED <<script, apiKey, sdkLoaded, pc, demos, idx, successful, turn,
                 unit, calls, invoked, out>>

\* The requested cancellation takes effect at the await the task reached.
CancelAtAwait ==
  /\ pc = "await"
  /\ sigint = "pending"
  /\ sigint' = "taken"
  /\ calls' = EndCall("cancelled")
  /\ OpRaises("CancelledError", TRUE, << >>)
  /\ UNCHANGED <<script, apiKey, sdkLoaded, sigLog>>

\* ------------------------------------------------------------ specification

Program ==
  \/ PrintBanner
  \/ InstallRequirements
  \/ SetupApiKey
  \/ CheckCli
  \/ BuildDemos
  \/ StartUnit
  \/ ImportSDK
  \/ IssueCall
  \/ CallSucceeds
  \/ CallFails
  \/ PrintSummary
  \/ AsyncioRunReturns
  \/ CancelAtAwait

Signal ==
  \/ SigintWhileSuspended
  \/ SigintRaises
  \/ SigintCancels

Next == Program \/ Signal

Spec == Init /\ [][Next]_vars

\* The interpreter keeps running the single main task and every awaited call
\* comes back; whether a signal arrives is up to the environment.
LiveSpec == Init /\ [][Next]_vars /\ WF_vars(Program)


\* ------------------------------------------------------------ properties

Printed(k) == \E j \in DOMAIN out : out[j].kind = k

Interrupted == sigLog # << >>

Settled == {i \in DOMAIN unit : unit[i] \in {"ReturnedTrue", "ReturnedFalse", "Raised"}}

ReturnedTrue == {i \in DOMAIN unit : unit[i] = "ReturnedTrue"}

DiagKinds == {"op_error", "op_error_handled", "runner_error"}

\* out[k] is a diagnostic printed after demo i's header with no other header
\* in between.
DiagOf(i, k) ==
  /\ out[k].kind \in DiagKinds
  /\ \E h \in 1..(k - 1) :
       /\ out[h] = HeaderMsg(DemoList(script)[i])
       /\ \A m \in (h + 1)..(k - 1) : out[m].kind # "header"

\* C1: in a run over the built list of demos that no signal interrupts, every
\* demo function is called exactly once, in list order: the calls made so far
\* are always a prefix of the list, and a finished run has made all of them.
C1_EachUnitOnceInOrder ==
  /\ Len(invoked) <= Len(demos)
  /\ \A k \in DOMAIN invoked : invoked[k] = demos[k].func
  /\ (pc \in {"return", "exit"} /\ ~Interrupted /\ demos # << >>)
        => Len(invoked) = Len(demos)

C1_Witness ==
  /\ pc = "exit"
  /\ ~Interrupted
  /\ Len(invoked) = 6
  /\ \E i, j, k \in DOMAIN unit :
       unit[i] = "Raised" /\ unit[j] = "ReturnedFalse" /\ unit[k] = "ReturnedTrue"

\* C2: a demo whose exception reaches run_all_demos is failed, not counted,
\* reported with a message carrying its name, and does not end the batch: no
\* "Demo failed" from main(), and an uninterrupted run still calls every later
\* demo.
C2_RaiseIsolated ==
  \A i \in DOMAIN unit : unit[i] = "Raised" =>
    /\ \E k \in DOMAIN out : out[k] = Msg("runner_error", demos[i].name)
    /\ successful = Cardinality(ReturnedTrue)
    /\ ~Printed("demo_failed")
    /\ pc # "exit" \/ Interrupted
         \/ \A j \in (i + 1)..Len(demos) : \E k \in DOMAIN invoked : invoked[k] = demos[j].func

C2_Witness ==
  /\ pc = "exit"
  /\ ~Interrupted
  /\ unit[1] = "Raised"
  /\ unit[2] = "ReturnedTrue"
  /\ successful = Cardinality(ReturnedTrue)

\* C3: a printed summary line "Completed X/Y" has X = the number of demos
\* that returned True and Y = the length of the list.
C3_SummaryCounts ==
  \A k \in DOMAIN out : out[k].kind = "summary" =>
    /\ out[k].n = Cardinality(ReturnedTrue)
    /\ out[k].d = Len(demos)
    /\ out[k].d = Len(DemoList(script))

C3_Witness ==
  /\ \E k \in DOMAIN out : out[k].kind = "summary" /\ out[k].n = 2 /\ out[k].d = 4
  /\ ~Interrupted
  /\ \E i, j \in DOMAIN unit : unit[i] = "ReturnedFalse" /\ unit[j] = "ReturnedTrue"

\* C4 as claimed: once a signal was delivered, at whatever point of the run,
\* no further demo is started, no summary line is printed, and the run ends
\* with the interruption notice.
C4_InterruptAnywhere ==
  Interrupted =>
    /\ Len(invoked) = sigLog[1].started
    /\ ~Printed("summary")
    /\ pc = "exit" => Printed("interrupted")

\* C4 amended: a signal delivered while the running demo is suspended in its
\* awaited call ends the run there: no further demo is started or settled, no
\* summary line is printed, the interruption notice is.
C4_InterruptWhileSuspended ==
  (Interrupted /\ sigLog[1].at = "await") =>
    /\ pc = "exit"
    /\ Len(invoked) = sigLog[1].started
    /\ \A i \in DOMAIN unit : i > sigLog[1].started => unit[i] = "Pending"
    /\ unit[sigLog[1].started] = "Interrupted"
    /\ ~Printed("summary")
    /\ Printed("interrupted")
    /\ InFlight = {}

C4_Witness ==
  /\ Interrupted
  /\ sigLog[1].at = "await"
  /\ sigLog[1].started = 3
  /\ {1, 2} \subseteq Settled
  /\ Printed("interrupted")

\* C5: at most one demo is running and at most one call is in flight, the call
\* in flight belongs to the running demo, and a demo has left Pending only if
\* its predecessor has settled.
C5_StrictlySequential ==
  /\ Cardinality({i \in DOMAIN unit : unit[i] = "Running"}) <= 1
  /\ Cardinality(InFlight) <= 1
  /\ \A c \in InFlight : unit[c[1]] = "Running" /\ pc = "await"
  /\ \A i \in DOMAIN unit :
       (i > 1 /\ unit[i] # "Pending") => Status(i - 1) \in {"Succeeded", "Failed"}

C5_Witness ==
  /\ pc = "await"
  /\ InFlight = {<<5, 2>>}
  /\ calls[5][1] = "ok"
  /\ unit[6] = "Pending"

\* C6: once the list of demos is built, a run that no signal interrupts goes
\* on until the summary line is printed, and main() reports no failure.
C6_RunCompletes ==
  (demos # << >> /\ ~Interrupted)
     ~> ((Printed("summary") /\ ~Printed("demo_failed")) \/ Interrupted)

C6_Witness ==
  /\ pc = "exit"
  /\ ~Interrupted
  /\ Printed("summary")
  /\ \A i \in DOMAIN unit : Status(i) = "Failed"

\* C7 as claimed: every failed demo has a diagnostic whose text carries the
\* demo's name.
C7_DiagnosticNamesUnit ==
  \A i \in DOMAIN unit : Status(i) = "Failed" =>
    \E k \in DOMAIN out :
      out[k].kind \in DiagKinds /\ out[k].label = DemoList(script)[i].name

\* C7 amended: every failed demo has a diagnostic printed right after its own
\* header (no other demo's header in between); the message of run_all_demos
\* for a demo that raised carries the demo's name, the message a demo prints
\* before returning False carries none.
C7_DiagnosticFollowsHeader ==
  \A i \in DOMAIN unit : Status(i) = "Failed" =>
    \E k \in DOMAIN out :
      /\ DiagOf(i, k)
      /\ out[k].label = IF unit[i] = "Raised" THEN DemoList(script)[i].name ELSE ""

C7_Witness ==
  \E i, j \in DOMAIN unit :
    /\ unit[i] = "Raised"
    /\ unit[j] = "ReturnedFalse"
    /\ \E k \in DOMAIN out : DiagOf(j, k) /\ out[k].label = ""

\* C8: the counter starts at 0, is never above the number of demos settled so
\* far, never decreases, and grows by one only in a step that settles a demo.
C8_CountBounded ==
  /\ successful = 0
  /\ [](successful <= Cardinality(Settled) /\ Cardinality(Settled) <= Len(invoked))
  /\ [][/\ successful' \in {successful, successful + 1}
        /\ successful' = successful + 1
             => Cardinality(Settled') = Cardinality(Settled) + 1]_vars

C8_Witness ==
  /\ successful = 2
  /\ Cardinality(Settled) = 4
  /\ pc = "await"

\* C9 as claimed: a demo that has ended returned True exactly when every call
\* it issued succeeded.
C9_TrueIffCallsSucceed ==
  \A i \in Settled :
    (unit[i] = "ReturnedTrue") <=> (\A k \in DOMAIN calls[i] : calls[i][k] = "ok")

\* C9 amended: a demo that has ended returned True exactly when it issued
\* all the calls it is written to make and each succeeded; a failed call is
\* the demo's last call, makes it print its diagnostic and return False
\* (never raise), and the demo counts once, as failed.
C9_TrueIffAllCallsMade ==
  \A i \in DOMAIN unit :
    /\ i \in Settled =>
         ((unit[i] = "ReturnedTrue") <=>
            /\ Len(calls[i]) = Turns(DemoList(script)[i].func)
            /\ \A k \in DOMAIN calls[i] : calls[i][k] = "ok")
    /\ \A k \in DOMAIN calls[i] : calls[i][k] = "error" =>
         /\ k = Len(calls[i])
         /\ unit[i] = "ReturnedFalse"
         /\ \E m \in DOMAIN out : DiagOf(i, m) /\ out[m].kind # "runner_error"
         /\ successful = Cardinality(ReturnedTrue)

C9_Witness ==
  /\ script = "claudeCodeDemo"
  /\ calls[5] = <<"ok", "error">>
  /\ unit[5] = "ReturnedFalse"
  /\ unit[6] = "ReturnedTrue"

\* C10: without an API key nothing of the batch happens: the list is not
\* built, no demo is called, no call is made, no summary line is printed; and
\* a demo is called only after setup_api_key reported the key.
C10_SetupGatesBatch ==
  /\ ~apiKey =>
       /\ demos = << >>
       /\ invoked = << >>
       /\ \A i \in DOMAIN calls : calls[i] = << >>
       /\ ~Printed("summary")
  /\ invoked # << >> => Printed("key_ok")

C10_Witness ==
  /\ ~apiKey
  /\ pc = "exit"
  /\ Printed("key_missing")
  /\ ~Interrupted

====
